---- MODULE Spec2Model ----
(***************************************************************************)
(* beorg2journelly: two-way synchronisation of TODO tasks between a BeOrg  *)
(* inbox.org file and a Journelly.org file (src/src/main.py).              *)
(*                                                                         *)
(* Text is modelled as a sequence of one-character strings, so that        *)
(* str.strip, str.split, str.startswith, slicing, re.match, strptime and   *)
(* strftime are computed character by character, as the code does.         *)
(* A datetime is the tuple <<year, month, day, hour, minute, second>>.     *)
(***************************************************************************)
EXTENDS Integers, Sequences, FiniteSets, TLC

(***************************************************************************)
(* Bounds of the model.                                                    *)
(***************************************************************************)
\* longest task list handed to synchronize / _format_tasks
MaxLen == 2
\* most lines in a text handed to a parser's _parse_tasks
MaxLines == 3
\* most two-line entries in the two files of a run of main, taken together
MaxEntries == 3
\* tasks in a list handed to write_file
MaxTasks == 3

(***************************************************************************)
(* Characters and the str methods the parsers use.                         *)
(***************************************************************************)
NL == "\n"

\* the characters str.strip() removes (those the model's texts can hold)
Whitespace == {" ", "\t", "\n"}

Digits == <<"0", "1", "2", "3", "4", "5", "6", "7", "8", "9">>

UpperCase == <<"A", "B", "C", "D", "E", "F", "G", "H", "I", "J", "K", "L", "M",
               "N", "O", "P", "Q", "R", "S", "T", "U", "V", "W", "X", "Y", "Z">>

LowerCase == <<"a", "b", "c", "d", "e", "f", "g", "h", "i", "j", "k", "l", "m",
               "n", "o", "p", "q", "r", "s", "t", "u", "v", "w", "x", "y", "z">>

Range(s) == {s[k] : k \in 1..Len(s)}

IsDigit(c) == c \in Range(Digits)

\* the regular expression class \w
IsWord(c) == c \in Range(Digits) \cup Range(UpperCase) \cup Range(LowerCase) \cup {"_"}

DigitVal(c) == (CHOOSE k \in 1..10 : Digits[k] = c) - 1

Lower(c) ==
    IF c \in Range(UpperCase)
    THEN LowerCase[CHOOSE k \in 1..26 : UpperCase[k] = c]
    ELSE c

LowerStr(s) == [k \in 1..Len(s) |-> Lower(s[k])]

\* s[n:] of Python, n >= 0
DropFirst(s, n) == IF n >= Len(s) THEN <<>> ELSE SubSeq(s, n + 1, Len(s))

\* s.startswith(p)
StartsWith(s, p) == Len(s) >= Len(p) /\ SubSeq(s, 1, Len(p)) = p

\* s.strip(): from the first to the last character that is not whitespace
Strip(s) ==
    LET kept == {k \in 1..Len(s) : s[k] \notin Whitespace}
    IN  IF kept = {} THEN <<>>
        ELSE SubSeq(s, CHOOSE k \in kept : \A j \in kept : k <= j,
                       CHOOSE k \in kept : \A j \in kept : j <= k)

\* s.split('\n'): the pieces between the line breaks; never empty, ''
\* splits to ['']
Split(s) ==
    LET breaks == {k \in 1..Len(s) : s[k] = NL}
        \* the position of the n-th line break, 0 before the first piece and
        \* Len(s) + 1 behind the last
        break(n) ==
            IF n = 0 THEN 0
            ELSE IF n > Cardinality(breaks) THEN Len(s) + 1
            ELSE CHOOSE k \in breaks : Cardinality({j \in breaks : j < k}) = n - 1
    IN  [n \in 1..(Cardinality(breaks) + 1) |-> SubSeq(s, break(n - 1) + 1, break(n) - 1)]

\* '\n'.join(lines)
RECURSIVE Join(_)
Join(lines) ==
    IF lines = <<>> THEN <<>>
    ELSE IF Len(lines) = 1 THEN lines[1]
    ELSE lines[1] \o <<NL>> \o Join(Tail(lines))

(***************************************************************************)
(* datetime: strptime and strftime with the format '%Y-%m-%d %a %H:%M',    *)
(* and the order min() compares timestamps by.                             *)
(***************************************************************************)
DayAbbr == << <<"M", "o", "n">>, <<"T", "u", "e">>, <<"W", "e", "d">>,
              <<"T", "h", "u">>, <<"F", "r", "i">>, <<"S", "a", "t">>,
              <<"S", "u", "n">> >>

IsLeap(y) == (y % 4 = 0) /\ ((y % 100 # 0) \/ (y % 400 = 0))

DaysInMonth(y, m) ==
    IF m = 2 THEN (IF IsLeap(y) THEN 29 ELSE 28)
    ELSE IF m \in {4, 6, 9, 11} THEN 30 ELSE 31

MonthOffset == <<0, 3, 2, 5, 0, 3, 5, 1, 4, 6, 2, 4>>

\* datetime.weekday(): 0 is Monday
Weekday(dt) ==
    LET y == IF dt[2] < 3 THEN dt[1] - 1 ELSE dt[1]
        sundayBased == (y + (y \div 4) - (y \div 100) + (y \div 400)
                          + MonthOffset[dt[2]] + dt[3]) % 7
    IN  (sundayBased + 6) % 7

Pad2(n) == <<Digits[((n \div 10) % 10) + 1], Digits[(n % 10) + 1]>>

Pad4(n) == Pad2(n \div 100) \o Pad2(n % 100)

Num2(s, k) == 10 * DigitVal(s[k]) + DigitVal(s[k + 1])

\* what strptime does: it returns a datetime or raises ValueError
Returned(dt) == [raised |-> FALSE, value |-> dt]
ValueError == [raised |-> TRUE, value |-> <<>>]

\* dt.strftime('%Y-%m-%d %a %H:%M'): the seconds are not written, the
\* weekday is computed from the date
Strftime(dt) ==
    Pad4(dt[1]) \o <<"-">> \o Pad2(dt[2]) \o <<"-">> \o Pad2(dt[3]) \o <<" ">>
        \o DayAbbr[Weekday(dt) + 1] \o <<" ">>
        \o Pad2(dt[4]) \o <<":">> \o Pad2(dt[5])

\* datetime.strptime(s, '%Y-%m-%d %a %H:%M') for s of the shape the regular
\* expressions let through (dddd-dd-dd www dd:dd). The weekday name must be
\* one of the seven (any letter case) and is otherwise ignored.
Strptime(s) ==
    LET y  == 100 * Num2(s, 1) + Num2(s, 3)
        mo == Num2(s, 6)
        d  == Num2(s, 9)
        h  == Num2(s, 16)
        mi == Num2(s, 19)
        dow == LowerStr(SubSeq(s, 12, 14))
    IN  IF /\ y >= 1
           /\ mo \in 1..12
           /\ d >= 1
           /\ d <= DaysInMonth(y, mo)
           /\ h \in 0..23
           /\ mi \in 0..59
           /\ \E k \in 1..7 : LowerStr(DayAbbr[k]) = dow
        THEN Returned(<<y, mo, d, h, mi, 0>>)
        ELSE ValueError

RECURSIVE DtLess(_, _)
\* a < b for two datetimes (tuples compared from the year down)
DtLess(a, b) ==
    IF a = <<>> THEN FALSE
    ELSE IF Head(a) # Head(b) THEN Head(a) < Head(b)
    ELSE DtLess(Tail(a), Tail(b))

\* min(a, b) of Python: b only when b < a
DtMin(a, b) == IF DtLess(b, a) THEN b ELSE a

(***************************************************************************)
(* re.match: the pattern is matched at the start of the line and need not  *)
(* reach its end. A pattern is a sequence of literal characters and the    *)
(* classes "\\d" and "\\w".                                                *)
(***************************************************************************)
ClassD == "\\d"
ClassW == "\\w"

MatchesAt(p, c) ==
    IF p = ClassD THEN IsDigit(c)
    ELSE IF p = ClassW THEN IsWord(c)
    ELSE p = c

ReMatch(pattern, line) ==
    /\ Len(line) >= Len(pattern)
    /\ \A k \in 1..Len(pattern) : MatchesAt(pattern[k], line[k])

\* \d{4}-\d{2}-\d{2} \w{3} \d{2}:\d{2}, the group both patterns capture
TimestampGroup ==
    <<ClassD, ClassD, ClassD, ClassD, "-", ClassD, ClassD, "-", ClassD, ClassD,
      " ", ClassW, ClassW, ClassW, " ", ClassD, ClassD, ":", ClassD, ClassD>>

(***************************************************************************)
(* Task, and what one step of a parser's loop yields.                      *)
(***************************************************************************)
Task(content, timestamp, is_completed) ==
    [content |-> content, timestamp |-> timestamp, is_completed |-> is_completed]

\* a warning appended to self.warnings: which message, and the text it quotes
Warning(kind, text) == [kind |-> kind, text |-> text]

\* (task, lines_consumed) and the warnings appended meanwhile;
\* task is <<>> for None and <<t>> for a Task t
Parsed(task, lines_consumed, warnings) ==
    [task |-> task, consumed |-> lines_consumed, warnings |-> warnings]

(***************************************************************************)
(* BeOrgParser                                                             *)
(***************************************************************************)
TODO_HEADER == <<"*", " ", "T", "O", "D", "O", " ">>
DONE_HEADER == <<"*", " ", "D", "O", "N", "E", " ">>

\* r'\[(\d{4}-\d{2}-\d{2} \w{3} \d{2}:\d{2})\]'
BeOrgPattern == <<"[">> \o TimestampGroup \o <<"]">>

\* _parse_beorg_timestamp_and_create_task counting the line after the
\* header as consumed also when it is no timestamp
BeOrg_parse_timestamp_consuming(task_content, is_completed, lines, i, header_line) ==
    IF i + 1 < Len(lines)
    THEN LET next_line == Strip(lines[i + 2])
         IN  IF ReMatch(BeOrgPattern, next_line)
             THEN LET timestamp_str == SubSeq(next_line, 2, 1 + Len(TimestampGroup))
                      timestamp == Strptime(timestamp_str)
                  IN  IF ~timestamp.raised
                      THEN Parsed(<<Task(task_content, timestamp.value, is_completed)>>,
                                  1, <<>>)
                      ELSE Parsed(<<>>, 1,
                                  <<Warning("BeOrg invalid timestamp", timestamp_str)>>)
             ELSE Parsed(<<>>, 1, <<Warning("BeOrg malformed", header_line)>>)
    ELSE Parsed(<<>>, 0, <<Warning("BeOrg end of file", header_line)>>)

\* i is the 0-based index of the header line, as in the code
BeOrg_parse_beorg_timestamp_and_create_task(task_content, is_completed, lines, i, header_line) ==
    IF i + 1 < Len(lines)
    THEN LET next_line == Strip(lines[i + 2])
         IN  IF ReMatch(BeOrgPattern, next_line)
             THEN LET timestamp_str == SubSeq(next_line, 2, 1 + Len(TimestampGroup))
                      timestamp == Strptime(timestamp_str)
                  IN  IF ~timestamp.raised
                      THEN Parsed(<<Task(task_content, timestamp.value, is_completed)>>,
                                  1, <<>>)
                      ELSE Parsed(<<>>, 0,
                                  <<Warning("BeOrg invalid timestamp", timestamp_str)>>)
             ELSE Parsed(<<>>, 0, <<Warning("BeOrg malformed", header_line)>>)
    ELSE Parsed(<<>>, 0, <<Warning("BeOrg end of file", header_line)>>)

BeOrg_is_header(line) == StartsWith(line, TODO_HEADER) \/ StartsWith(line, DONE_HEADER)

\* _parse_task_from_line taking line[7:].strip() for the content
BeOrg_parse_task_from_line_stripping(line, lines, i) ==
    IF ~BeOrg_is_header(line)
    THEN Parsed(<<>>, 0, <<>>)
    ELSE BeOrg_parse_beorg_timestamp_and_create_task(
             Strip(DropFirst(line, 7)), StartsWith(line, DONE_HEADER), lines, i, line)

BeOrg_parse_task_from_line(line, lines, i) ==
    IF ~BeOrg_is_header(line)
    THEN Parsed(<<>>, 0, <<>>)
    ELSE BeOrg_parse_beorg_timestamp_and_create_task(
             DropFirst(line, 7), StartsWith(line, DONE_HEADER), lines, i, line)

\* one iteration of the while loop of _parse_tasks at index i
BeOrg_step(lines, i) == BeOrg_parse_task_from_line(Strip(lines[i + 1]), lines, i)

RECURSIVE BeOrg_loop(_, _, _, _)
BeOrg_loop(lines, i, tasks, warnings) ==
    IF i < Len(lines)
    THEN LET r == BeOrg_step(lines, i)
         IN  BeOrg_loop(lines, i + 1 + r.consumed, tasks \o r.task,
                        warnings \o r.warnings)
    ELSE [tasks |-> tasks, warnings |-> warnings]

\* content.strip().split('\n')
SplitLines(content) == Split(Strip(content))

BeOrg_parse_tasks(content) == BeOrg_loop(SplitLines(content), 0, <<>>, <<>>)

BeOrg_format_task(task) ==
    << (IF task.is_completed THEN DONE_HEADER ELSE TODO_HEADER) \o task.content,
       <<"[">> \o Strftime(task.timestamp) \o <<"]">> >>

RECURSIVE BeOrg_format_tasks(_)
BeOrg_format_tasks(tasks) ==
    IF tasks = <<>> THEN <<>>
    ELSE BeOrg_format_task(Head(tasks)) \o BeOrg_format_tasks(Tail(tasks))

(***************************************************************************)
(* JournellyParser                                                         *)
(***************************************************************************)
OPEN_BOX == <<"-", " ", "[", " ", "]", " ">>
DONE_BOX == <<"-", " ", "[", "X", "]", " ">>
JOURNELLY_SUFFIX == <<" ", "@", " ", "-">>

\* r'\* \[(\d{4}-\d{2}-\d{2} \w{3} \d{2}:\d{2})\] @ -'
JournellyPattern == <<"*", " ", "[">> \o TimestampGroup \o <<"]">> \o JOURNELLY_SUFFIX

Journelly_is_header(line) == ReMatch(JournellyPattern, line)

Journelly_parse_journelly_task_from_line(line, lines, i) ==
    IF ~Journelly_is_header(line)
    THEN Parsed(<<>>, 0, <<>>)
    ELSE LET timestamp_str == SubSeq(line, 4, 3 + Len(TimestampGroup))
             timestamp == Strptime(timestamp_str)
         IN  IF timestamp.raised
             THEN Parsed(<<>>, 0,
                         <<Warning("Journelly invalid timestamp", timestamp_str)>>)
             ELSE IF i + 1 < Len(lines)
             THEN LET next_line == Strip(lines[i + 2])
                  IN  IF StartsWith(next_line, OPEN_BOX) \/ StartsWith(next_line, DONE_BOX)
                      THEN Parsed(<<Task(DropFirst(next_line, 6), timestamp.value,
                                         StartsWith(next_line, DONE_BOX))>>, 1, <<>>)
                      ELSE Parsed(<<>>, 0, <<Warning("Journelly task line missing", line)>>)
             ELSE Parsed(<<>>, 0, <<Warning("Journelly end of file", line)>>)

Journelly_step(lines, i) ==
    Journelly_parse_journelly_task_from_line(Strip(lines[i + 1]), lines, i)

RECURSIVE Journelly_loop(_, _, _, _)
Journelly_loop(lines, i, tasks, warnings) ==
    IF i < Len(lines)
    THEN LET r == Journelly_step(lines, i)
         IN  Journelly_loop(lines, i + 1 + r.consumed, tasks \o r.task,
                            warnings \o r.warnings)
    ELSE [tasks |-> tasks, warnings |-> warnings]

Journelly_parse_tasks(content) == Journelly_loop(SplitLines(content), 0, <<>>, <<>>)

\* Journelly_format_task with a lower-case x in the box of a completed task
Journelly_format_task_lower_x(task) ==
    << <<"*", " ", "[">> \o Strftime(task.timestamp) \o <<"]">> \o JOURNELLY_SUFFIX,
       (IF task.is_completed THEN <<"-", " ", "[", "x", "]", " ">> ELSE OPEN_BOX)
           \o task.content >>

Journelly_format_task(task) ==
    << <<"*", " ", "[">> \o Strftime(task.timestamp) \o <<"]">> \o JOURNELLY_SUFFIX,
       (IF task.is_completed THEN DONE_BOX ELSE OPEN_BOX) \o task.content >>

RECURSIVE Journelly_format_tasks(_)
Journelly_format_tasks(tasks) ==
    IF tasks = <<>> THEN <<>>
    ELSE Journelly_format_task(Head(tasks)) \o Journelly_format_tasks(Tail(tasks))

(***************************************************************************)
(* The two parsers behind one name, chosen by the parser's class.          *)
(***************************************************************************)
BeOrg == "BeOrg"
Journelly == "Journelly"
Parsers == {BeOrg, Journelly}

is_header(parser, line) ==
    IF parser = BeOrg THEN BeOrg_is_header(line) ELSE Journelly_is_header(line)

parse_step(parser, lines, i) ==
    IF parser = BeOrg THEN BeOrg_step(lines, i) ELSE Journelly_step(lines, i)

parse_tasks(parser, content) ==
    IF parser = BeOrg THEN BeOrg_parse_tasks(content) ELSE Journelly_parse_tasks(content)

format_tasks(parser, tasks) ==
    IF parser = BeOrg THEN BeOrg_format_tasks(tasks) ELSE Journelly_format_tasks(tasks)

(***************************************************************************)
(* BaseParser.write_file: what is written to the file.                     *)
(***************************************************************************)
\* t put into a list already sorted latest first, behind every task that is
\* not earlier than it (sorted(..., reverse=True) keeps equal keys in order)
RECURSIVE InsertDescending_before_equal(_, _)
\* InsertDescending with t put in front of the tasks of its own timestamp
InsertDescending_before_equal(sorted, t) ==
    IF sorted = <<>> THEN <<t>>
    ELSE IF ~DtLess(t.timestamp, Head(sorted).timestamp) THEN <<t>> \o sorted
    ELSE <<Head(sorted)>> \o InsertDescending_before_equal(Tail(sorted), t)

RECURSIVE InsertDescending(_, _)
InsertDescending(sorted, t) ==
    IF sorted = <<>> THEN <<t>>
    ELSE IF DtLess(Head(sorted).timestamp, t.timestamp) THEN <<t>> \o sorted
    ELSE <<Head(sorted)>> \o InsertDescending(Tail(sorted), t)

RECURSIVE SortedDescending(_)
\* sorted(tasks, key=lambda t: t.timestamp, reverse=True)
SortedDescending(tasks) ==
    IF tasks = <<>> THEN <<>>
    ELSE InsertDescending(SortedDescending(SubSeq(tasks, 1, Len(tasks) - 1)),
                          tasks[Len(tasks)])

\* '\n'.join(lines), and a final '\n' if there are lines
FileText(file_lines) ==
    IF file_lines = <<>> THEN <<>> ELSE Join(file_lines) \o <<NL>>

write_file_text(parser, tasks) == FileText(format_tasks(parser, SortedDescending(tasks)))

(***************************************************************************)
(* TaskSynchronizer.synchronize                                            *)
(***************************************************************************)
ContentsOf(tasks) == {tasks[k].content : k \in 1..Len(tasks)}

LastIndexOf(tasks, c) ==
    CHOOSE k \in 1..Len(tasks) :
        /\ tasks[k].content = c
        /\ \A j \in (k + 1)..Len(tasks) : tasks[j].content # c

\* by_content with the first task of a content kept instead of the last
by_content_first_wins(tasks) ==
    [c \in ContentsOf(tasks) |->
        tasks[CHOOSE k \in 1..Len(tasks) :
                 /\ tasks[k].content = c
                 /\ \A j \in 1..(k - 1) : tasks[j].content # c]]

\* {task.content: task for task in tasks}: a later task replaces an earlier
\* one with the same content
by_content(tasks) == [c \in ContentsOf(tasks) |-> tasks[LastIndexOf(tasks, c)]]

\* earlier_timestamp with max in place of min
later_timestamp(beorg_task, journelly_task) ==
    IF DtLess(beorg_task.timestamp, journelly_task.timestamp)
    THEN journelly_task.timestamp
    ELSE beorg_task.timestamp

earlier_timestamp(beorg_task, journelly_task) ==
    DtMin(beorg_task.timestamp, journelly_task.timestamp)

\* merged_is_completed with "and" in place of "or"
merged_is_completed_both(beorg_task, journelly_task) ==
    beorg_task.is_completed /\ journelly_task.is_completed

merged_is_completed(beorg_task, journelly_task) ==
    beorg_task.is_completed \/ journelly_task.is_completed

\* sync_both without the append to final_journelly_tasks
sync_both_beorg_only(content, beorg_task, journelly_task) ==
    LET merged_task == Task(content, earlier_timestamp(beorg_task, journelly_task),
                            merged_is_completed(beorg_task, journelly_task))
    IN  IF merged_task.is_completed
        THEN << <<>>, <<>> >>
        ELSE << <<merged_task>>, <<>> >>

\* what one pass of the loop appends to (final_beorg_tasks, final_journelly_tasks)
\* for a content found in both files
sync_both(content, beorg_task, journelly_task) ==
    LET merged_task == Task(content, earlier_timestamp(beorg_task, journelly_task),
                            merged_is_completed(beorg_task, journelly_task))
    IN  IF merged_task.is_completed
        THEN << <<>>, <<>> >>
        ELSE << <<merged_task>>, <<merged_task>> >>

\* sync_single with the task added to the other file's list only
sync_single_other_only(single_task, source) ==
    IF single_task.is_completed
    THEN << <<>>, <<>> >>
    ELSE IF source = BeOrg THEN << <<>>, <<single_task>> >>
    ELSE << <<single_task>>, <<>> >>

\* sync_single without the test of is_completed
sync_single_keeping_completed(single_task, source) ==
    << <<single_task>>, <<single_task>> >>

\* ... and for a content found in one file only (source names that file)
sync_single(single_task, source) ==
    IF single_task.is_completed
    THEN << <<>>, <<>> >>
    ELSE << <<single_task>>, <<single_task>> >>

sync_content(content, beorg_by_content, journelly_by_content) ==
    IF content \in DOMAIN beorg_by_content /\ content \in DOMAIN journelly_by_content
    THEN sync_both(content, beorg_by_content[content], journelly_by_content[content])
    ELSE IF content \in DOMAIN beorg_by_content
    THEN sync_single(beorg_by_content[content], BeOrg)
    ELSE sync_single(journelly_by_content[content], Journelly)

RECURSIVE sync_loop_prepending(_, _, _, _)
\* sync_loop with final_journelly_tasks.insert(0, ...) in place of append
sync_loop_prepending(order, beorg_by_content, journelly_by_content, finals) ==
    IF order = <<>> THEN finals
    ELSE LET add == sync_content(Head(order), beorg_by_content, journelly_by_content)
         IN  sync_loop_prepending(Tail(order), beorg_by_content, journelly_by_content,
                                  <<finals[1] \o add[1], add[2] \o finals[2]>>)

RECURSIVE sync_loop(_, _, _, _)
\* the for loop, all_contents being iterated in the order given
sync_loop(order, beorg_by_content, journelly_by_content, finals) ==
    IF order = <<>> THEN finals
    ELSE LET add == sync_content(Head(order), beorg_by_content, journelly_by_content)
         IN  sync_loop(Tail(order), beorg_by_content, journelly_by_content,
                       <<finals[1] \o add[1], finals[2] \o add[2]>>)

all_contents(beorg_tasks_in, journelly_tasks_in) ==
    DOMAIN by_content(beorg_tasks_in) \cup DOMAIN by_content(journelly_tasks_in)

\* the orders a set of strings can be iterated in: Python fixes none
Orders(S) ==
    {o \in [1..Cardinality(S) -> S] : \A j, k \in 1..Cardinality(S) : o[j] = o[k] => j = k}

\* synchronize(beorg_tasks, journelly_tasks) when the set is iterated in this order
synchronize(order, beorg_tasks_in, journelly_tasks_in) ==
    sync_loop(order, by_content(beorg_tasks_in), by_content(journelly_tasks_in),
              << <<>>, <<>> >>)

(***************************************************************************)
(* State.                                                                  *)
(***************************************************************************)
VARIABLES
    pc,                 \* where the run, or the call under study, stands
    beorg_file,         \* the file at args.beorg_file: [exists, text]
    journelly_file,     \* the file at args.journelly_file
    beorg_tasks,        \* main's beorg_tasks / synchronize's first argument
    journelly_tasks,    \* main's journelly_tasks / synchronize's second argument
    beorg_warnings,     \* beorg_parser.warnings
    journelly_warnings, \* journelly_parser.warnings
    synced_beorg,       \* first list synchronize returned
    synced_journelly,   \* second list synchronize returned
    resynced_beorg,     \* first list of synchronize(synced_beorg, synced_journelly)
    resynced_journelly, \* second list of that call
    attempted,          \* the parsers write_file has been called on
    written,            \* the parsers whose write_file has returned
    error,              \* <<>>, or <<what failed, whose file>> once main caught it
    status,             \* <<>> while main runs, then <<its return value>>
    parser,             \* the parser class of the call under study
    content,            \* the text handed to _parse_tasks
    lines,              \* _parse_tasks' lines / write_file's lines
    i,                  \* _parse_tasks' i
    tasks,              \* _parse_tasks' tasks / write_file's tasks argument
    warnings,           \* self.warnings of the parser under study
    source_tasks        \* the task list handed to _format_tasks

mainVars == <<beorg_file, journelly_file, beorg_warnings, journelly_warnings,
              attempted, written, error, status>>
syncVars == <<beorg_tasks, journelly_tasks, synced_beorg, synced_journelly,
              resynced_beorg, resynced_journelly>>
parseVars == <<parser, content, lines, i, tasks, warnings, source_tasks>>
vars == <<pc, mainVars, syncVars, parseVars>>

NoFile == [exists |-> FALSE, text |-> <<>>]
File(text) == [exists |-> TRUE, text |-> text]

MainIdle ==
    /\ beorg_file = NoFile
    /\ journelly_file = NoFile
    /\ beorg_warnings = <<>>
    /\ journelly_warnings = <<>>
    /\ attempted = {}
    /\ written = {}
    /\ error = <<>>
    /\ status = <<>>

SyncIdle ==
    /\ beorg_tasks = <<>>
    /\ journelly_tasks = <<>>
    /\ synced_beorg = <<>>
    /\ synced_journelly = <<>>
    /\ resynced_beorg = <<>>
    /\ resynced_journelly = <<>>

ParseIdle ==
    /\ parser = BeOrg
    /\ content = <<>>
    /\ lines = <<>>
    /\ i = 0
    /\ tasks = <<>>
    /\ warnings = <<>>
    /\ source_tasks = <<>>

(***************************************************************************)
(* Inputs.                                                                 *)
(***************************************************************************)
SeqsUpTo(S, n) == UNION {[1..k -> S] : k \in 0..n}

\* 2024-01-01 09:00 and 2024-01-05 10:00, the second also at 30 seconds
EarlyTime == <<2024, 1, 1, 9, 0, 0>>
LateTime == <<2024, 1, 5, 10, 0, 0>>
LateTimeSeconds == <<2024, 1, 5, 10, 0, 30>>

ValidStamp == Strftime(EarlyTime)
\* month 13: the shape the patterns accept, no date
InvalidStamp == <<"2", "0", "2", "4", "-", "1", "3", "-", "0", "1", " ",
                  "M", "o", "n", " ", "0", "9", ":", "0", "0">>

ForeignLine == <<"*", " ", "n", "o", "t", "e">>

BeOrgLinePool ==
    { TODO_HEADER \o <<"a">>,
      DONE_HEADER \o <<"b">>,
      <<"[">> \o ValidStamp \o <<"]">>,
      <<"[">> \o InvalidStamp \o <<"]">>,
      <<" ">> \o TODO_HEADER \o <<"c">> \o <<" ">>,
      <<>>,
      ForeignLine }

JournellyLinePool ==
    { <<"*", " ", "[">> \o ValidStamp \o <<"]">> \o JOURNELLY_SUFFIX,
      <<"*", " ", "[">> \o InvalidStamp \o <<"]">> \o JOURNELLY_SUFFIX,
      <<"*", " ", "[">> \o ValidStamp \o <<"]">> \o JOURNELLY_SUFFIX \o <<" ", "x">>,
      OPEN_BOX \o <<"a">>,
      DONE_BOX \o <<"b">>,
      <<>>,
      ForeignLine }

LinePool(p) == IF p = BeOrg THEN BeOrgLinePool ELSE JournellyLinePool

\* the texts a parser is run on: up to MaxLines lines of its pool
ParserTexts(p) == {Join(ls) : ls \in SeqsUpTo(LinePool(p), MaxLines)}

\* the tasks synchronize is called with
SyncTaskPool ==
    {Task(<<"a">>, t, d) : t \in {EarlyTime, LateTime}, d \in BOOLEAN}
        \cup {Task(<<"b">>, EarlyTime, d) : d \in BOOLEAN}

\* the tasks _format_tasks is called with: contents that are plain, empty,
\* start or end with a space, or hold a line break
FormatTaskPool ==
    {Task(c, t, d) : c \in {<<"a">>, <<>>, <<" ", "a">>, <<"a", " ">>, <<"a", NL, "b">>},
                     t \in {EarlyTime, LateTimeSeconds}, d \in BOOLEAN}

\* the tasks write_file is called with: two contents at the same minute, a
\* content with a line break and an empty one, timestamps a day or half a
\* minute apart
WriteTaskPool ==
    {Task(<<"a">>, EarlyTime, FALSE), Task(<<"b">>, EarlyTime, FALSE),
     Task(<<"a", NL, "b">>, EarlyTime, TRUE), Task(<<"a">>, LateTime, FALSE),
     Task(<<"b">>, LateTimeSeconds, TRUE), Task(<<>>, LateTime, FALSE)}

\* the tasks the two files of a run of main hold: contents that differ in
\* letter case or in leading, inner or trailing whitespace only
MainTaskPool ==
    {Task(c, EarlyTime, FALSE) :
        c \in {<<"a", " ", "b">>, <<"A", " ", "b">>, <<"a", " ", " ", "b">>,
               <<" ", "a", " ", "b">>, <<"a", " ", "b", " ">>}}
        \cup {Task(<<"a", " ", "b">>, LateTime, TRUE)}

\* a file holding the two-line entries of these tasks in the parser's
\* format, or no file at all where there are none
FilesHolding(p, ts) ==
    {File(FileText(format_tasks(p, ts)))} \cup (IF ts = <<>> THEN {NoFile} ELSE {})

\* the two files of a run: up to MaxEntries entries between them
FilePairsOf(nb) ==
    UNION {FilesHolding(BeOrg, tb) \X FilesHolding(Journelly, tj) :
              tb \in [1..nb -> MainTaskPool],
              tj \in SeqsUpTo(MainTaskPool, MaxEntries - nb)}

FilePairs == UNION {FilePairsOf(nb) : nb \in 0..MaxEntries}

(***************************************************************************)
(* main: parse both files, synchronize, write both files.                  *)
(***************************************************************************)
Init ==
    /\ pc = "main"
    /\ \E files \in FilePairs :
          /\ beorg_file = files[1]
          /\ journelly_file = files[2]
    /\ beorg_warnings = <<>>
    /\ journelly_warnings = <<>>
    /\ attempted = {}
    /\ written = {}
    /\ error = <<>>
    /\ status = <<>>
    /\ SyncIdle
    /\ ParseIdle

\* main's except clauses: the error is printed and main returns 1
Abort(what, whose) ==
    /\ error' = <<what, whose>>
    /\ status' = <<1>>
    /\ pc' = "exit"

\* beorg_tasks = beorg_parser.parse_file(args.beorg_file)
ParseBeOrgFile ==
    /\ pc = "main"
    /\ \/ /\ ~beorg_file.exists
          /\ beorg_tasks' = <<>>
          /\ pc' = "parsed_beorg"
          /\ UNCHANGED <<beorg_warnings, error, status>>
       \/ /\ beorg_file.exists
          /\ LET r == BeOrg_parse_tasks(beorg_file.text)
             IN  /\ beorg_tasks' = r.tasks
                 /\ beorg_warnings' = beorg_warnings \o r.warnings
          /\ pc' = "parsed_beorg"
          /\ UNCHANGED <<error, status>>
       \/ /\ beorg_file.exists
          /\ Abort("reading", BeOrg)
          /\ UNCHANGED <<beorg_tasks, beorg_warnings>>
    /\ UNCHANGED <<beorg_file, journelly_file, journelly_warnings, attempted, written,
                   journelly_tasks, synced_beorg, synced_journelly, resynced_beorg,
                   resynced_journelly, parseVars>>

\* ParseJournellyFile with a failed read reported and then treated like a
\* missing file
ParseJournellyFileCarryingOn ==
    /\ pc = "parsed_beorg"
    /\ \/ /\ ~journelly_file.exists
          /\ journelly_tasks' = <<>>
          /\ UNCHANGED <<journelly_warnings, error>>
       \/ /\ journelly_file.exists
          /\ LET r == Journelly_parse_tasks(journelly_file.text)
             IN  /\ journelly_tasks' = r.tasks
                 /\ journelly_warnings' = journelly_warnings \o r.warnings
          /\ UNCHANGED error
       \/ /\ journelly_file.exists
          /\ error' = <<"reading", Journelly>>
          /\ journelly_tasks' = <<>>
          /\ UNCHANGED journelly_warnings
    /\ pc' = "parsed_journelly"
    /\ UNCHANGED <<beorg_file, journelly_file, beorg_warnings, attempted, written, status,
                   beorg_tasks, synced_beorg, synced_journelly, resynced_beorg,
                   resynced_journelly, parseVars>>

\* journelly_tasks = journelly_parser.parse_file(args.journelly_file)
ParseJournellyFile ==
    /\ pc = "parsed_beorg"
    /\ \/ /\ ~journelly_file.exists
          /\ journelly_tasks' = <<>>
          /\ pc' = "parsed_journelly"
          /\ UNCHANGED <<journelly_warnings, error, status>>
       \/ /\ journelly_file.exists
          /\ LET r == Journelly_parse_tasks(journelly_file.text)
             IN  /\ journelly_tasks' = r.tasks
                 /\ journelly_warnings' = journelly_warnings \o r.warnings
          /\ pc' = "parsed_journelly"
          /\ UNCHANGED <<error, status>>
       \/ /\ journelly_file.exists
          /\ Abort("reading", Journelly)
          /\ UNCHANGED <<journelly_tasks, journelly_warnings>>
    /\ UNCHANGED <<beorg_file, journelly_file, beorg_warnings, attempted, written,
                   beorg_tasks, synced_beorg, synced_journelly, resynced_beorg,
                   resynced_journelly, parseVars>>

\* synced_beorg, synced_journelly = synchronizer.synchronize(...)
Synchronize ==
    /\ pc = "parsed_journelly"
    /\ \E order \in Orders(all_contents(beorg_tasks, journelly_tasks)) :
          LET r == synchronize(order, beorg_tasks, journelly_tasks)
          IN  /\ synced_beorg' = r[1]
              /\ synced_journelly' = r[2]
    /\ pc' = "synced"
    /\ UNCHANGED <<mainVars, beorg_tasks, journelly_tasks, resynced_beorg,
                   resynced_journelly, parseVars>>

\* what a failed write leaves: the file as it was (open failed) or cut to
\* nothing (open succeeded, write failed)
AfterFailedWrite(file) == {file, File(<<>>)}

\* beorg_parser.write_file(args.beorg_file, synced_beorg)
WriteBeOrgFile ==
    /\ pc = "synced"
    /\ attempted' = attempted \cup {BeOrg}
    /\ \/ /\ beorg_file' = File(write_file_text(BeOrg, synced_beorg))
          /\ written' = written \cup {BeOrg}
          /\ pc' = "wrote_beorg"
          /\ UNCHANGED <<error, status>>
       \/ /\ beorg_file' \in AfterFailedWrite(beorg_file)
          /\ Abort("writing", BeOrg)
          /\ UNCHANGED written
    /\ UNCHANGED <<journelly_file, beorg_warnings, journelly_warnings, syncVars, parseVars>>

\* journelly_parser.write_file(args.journelly_file, synced_journelly); return 0
WriteJournellyFile ==
    /\ pc = "wrote_beorg"
    /\ attempted' = attempted \cup {Journelly}
    /\ \/ /\ journelly_file' = File(write_file_text(Journelly, synced_journelly))
          /\ written' = written \cup {Journelly}
          /\ status' = <<0>>
          /\ pc' = "exit"
          /\ UNCHANGED error
       \/ /\ journelly_file' \in AfterFailedWrite(journelly_file)
          /\ Abort("writing", Journelly)
          /\ UNCHANGED written
    /\ UNCHANGED <<beorg_file, beorg_warnings, journelly_warnings, syncVars, parseVars>>

Next ==
    \/ ParseBeOrgFile
    \/ ParseJournellyFile
    \/ Synchronize
    \/ WriteBeOrgFile
    \/ WriteJournellyFile

Spec == Init /\ [][Next]_vars

(***************************************************************************)
(* synchronize on its own: any two task lists, and a second call on what   *)
(* the first returned.                                                     *)
(***************************************************************************)
InitSync ==
    /\ pc = "parsed_journelly"
    /\ beorg_tasks \in SeqsUpTo(SyncTaskPool, MaxLen)
    /\ journelly_tasks \in SeqsUpTo(SyncTaskPool, MaxLen)
    /\ synced_beorg = <<>>
    /\ synced_journelly = <<>>
    /\ resynced_beorg = <<>>
    /\ resynced_journelly = <<>>
    /\ MainIdle
    /\ ParseIdle

\* synchronizer.synchronize(synced_beorg, synced_journelly)
Resynchronize ==
    /\ pc = "synced"
    /\ \E order \in Orders(all_contents(synced_beorg, synced_journelly)) :
          LET r == synchronize(order, synced_beorg, synced_journelly)
          IN  /\ resynced_beorg' = r[1]
              /\ resynced_journelly' = r[2]
    /\ pc' = "resynced"
    /\ UNCHANGED <<mainVars, beorg_tasks, journelly_tasks, synced_beorg,
                   synced_journelly, parseVars>>

NextSync == Synchronize \/ Resynchronize

SpecSync == InitSync /\ [][NextSync]_vars

(***************************************************************************)
(* _parse_tasks on its own, one pass of its while loop at a time.          *)
(***************************************************************************)
InitParse ==
    /\ pc = "parse_call"
    /\ parser \in Parsers
    /\ content \in ParserTexts(parser)
    /\ lines = <<>>
    /\ i = 0
    /\ tasks = <<>>
    /\ warnings = <<>>
    /\ source_tasks = <<>>
    /\ MainIdle
    /\ SyncIdle

\* tasks = []; lines = content.strip().split('\n'); i = 0
ParseBegin ==
    /\ pc = "parse_call"
    /\ lines' = SplitLines(content)
    /\ i' = 0
    /\ tasks' = <<>>
    /\ pc' = "parse_loop"
    /\ UNCHANGED <<mainVars, syncVars, parser, content, warnings, source_tasks>>

\* one pass of: while i < len(lines)
ParseStep ==
    /\ pc = "parse_loop"
    /\ i < Len(lines)
    /\ LET r == parse_step(parser, lines, i)
       IN  /\ tasks' = tasks \o r.task
           /\ warnings' = warnings \o r.warnings
           /\ i' = i + 1 + r.consumed
    /\ UNCHANGED <<pc, mainVars, syncVars, parser, content, lines, source_tasks>>

\* return tasks
ParseReturn ==
    /\ pc = "parse_loop"
    /\ ~(i < Len(lines))
    /\ pc' = "parse_returned"
    /\ UNCHANGED <<mainVars, syncVars, parseVars>>

NextParse == ParseBegin \/ ParseStep \/ ParseReturn

SpecParse == InitParse /\ [][NextParse]_vars

(***************************************************************************)
(* Round trip: _format_tasks, the lines joined, then _parse_tasks of the   *)
(* same parser.                                                            *)
(***************************************************************************)
InitRoundTrip ==
    /\ pc = "format_call"
    /\ parser \in Parsers
    /\ source_tasks \in SeqsUpTo(FormatTaskPool, MaxLen)
    /\ content = <<>>
    /\ lines = <<>>
    /\ i = 0
    /\ tasks = <<>>
    /\ warnings = <<>>
    /\ MainIdle
    /\ SyncIdle

\* content = '\n'.join(parser._format_tasks(source_tasks))
FormatAndJoin ==
    /\ pc = "format_call"
    /\ content' = Join(format_tasks(parser, source_tasks))
    /\ pc' = "parse_call"
    /\ UNCHANGED <<mainVars, syncVars, parser, lines, i, tasks, warnings, source_tasks>>

NextRoundTrip == FormatAndJoin \/ ParseBegin \/ ParseStep \/ ParseReturn

SpecRoundTrip == InitRoundTrip /\ [][NextRoundTrip]_vars

(***************************************************************************)
(* write_file on its own: any task list, written by either parser to its   *)
(* file.                                                                   *)
(***************************************************************************)
InitWrite ==
    /\ pc = "write_call"
    /\ parser \in Parsers
    /\ tasks \in SeqsUpTo(WriteTaskPool, MaxTasks)
    /\ content = <<>>
    /\ lines = <<>>
    /\ i = 0
    /\ warnings = <<>>
    /\ source_tasks = <<>>
    /\ MainIdle
    /\ SyncIdle

\* the file at filepath, here the parser's own
FileOf(p) == IF p = BeOrg THEN beorg_file ELSE journelly_file

\* parser.write_file(filepath, tasks): returns, or raises FileIOError
WriteFile ==
    /\ pc = "write_call"
    /\ lines' = format_tasks(parser, SortedDescending(tasks))
    /\ \E after \in {File(FileText(lines'))} \cup AfterFailedWrite(FileOf(parser)) :
          /\ IF parser = BeOrg
             THEN beorg_file' = after /\ UNCHANGED journelly_file
             ELSE journelly_file' = after /\ UNCHANGED beorg_file
          /\ \/ /\ after = File(FileText(lines'))
                /\ pc' = "write_return"
                /\ UNCHANGED error
             \/ /\ after \in AfterFailedWrite(FileOf(parser))
                /\ error' = <<"writing", parser>>
                /\ pc' = "write_raised"
    /\ UNCHANGED <<beorg_warnings, journelly_warnings, attempted, written, status,
                   syncVars, parser, content, i, tasks, warnings, source_tasks>>

NextWrite == WriteFile

SpecWrite == InitWrite /\ [][NextWrite]_vars

(***************************************************************************)
(* Vocabulary of the properties below. It is written from the task lists   *)
(* alone and uses none of the definitions that model synchronize.          *)
(***************************************************************************)
\* the tasks of a list that have content c, in list order
RECURSIVE TasksWith(_, _)
TasksWith(ts, c) ==
    IF ts = <<>> THEN <<>>
    ELSE (IF Head(ts).content = c THEN <<Head(ts)>> ELSE <<>>) \o TasksWith(Tail(ts), c)

HasContent(ts, c) == TasksWith(ts, c) # <<>>

\* the last task with content c of a list that has one
LastWith(ts, c) == TasksWith(ts, c)[Len(TasksWith(ts, c))]

InputContents ==
    {beorg_tasks[k].content : k \in 1..Len(beorg_tasks)}
        \cup {journelly_tasks[k].content : k \in 1..Len(journelly_tasks)}

\* the same tasks the same number of times, in whatever order
SameTasks(xs, ys) ==
    /\ Len(xs) = Len(ys)
    /\ \A k \in 1..Len(xs) :
          Cardinality({j \in 1..Len(xs) : xs[j] = xs[k]})
              = Cardinality({j \in 1..Len(ys) : ys[j] = xs[k]})

Synced == pc \in {"synced", "resynced"}

\* C1: a content held by both lists (the last task with it in each), both
\* tasks incomplete: each result list holds exactly one task with that
\* content, incomplete, stamped with the earlier of the two timestamps.
C1_EarlierTimestampInBoth ==
    Synced =>
        \A c \in InputContents :
            (/\ HasContent(beorg_tasks, c)
             /\ HasContent(journelly_tasks, c)
             /\ ~LastWith(beorg_tasks, c).is_completed
             /\ ~LastWith(journelly_tasks, c).is_completed)
            => LET tb == LastWith(beorg_tasks, c).timestamp
                   tj == LastWith(journelly_tasks, c).timestamp
                   earlier == IF DtLess(tj, tb) THEN tj ELSE tb
               IN  /\ TasksWith(synced_beorg, c) = <<Task(c, earlier, FALSE)>>
                   /\ TasksWith(synced_journelly, c) = <<Task(c, earlier, FALSE)>>

\* C1 witness: synchronize has returned for a content that both lists hold
\* incomplete, the journal's copy being the earlier one.
C1_Witness ==
    /\ pc = "synced"
    /\ \E c \in InputContents :
          /\ HasContent(beorg_tasks, c)
          /\ HasContent(journelly_tasks, c)
          /\ ~LastWith(beorg_tasks, c).is_completed
          /\ ~LastWith(journelly_tasks, c).is_completed
          /\ DtLess(LastWith(journelly_tasks, c).timestamp,
                    LastWith(beorg_tasks, c).timestamp)
          /\ HasContent(synced_beorg, c)

\* C2 as stated: a completed task anywhere in either list keeps its content
\* out of both results.
C2_AnyCompletedRemoves ==
    Synced =>
        \A c \in InputContents :
            (\/ \E k \in 1..Len(beorg_tasks) :
                   beorg_tasks[k].content = c /\ beorg_tasks[k].is_completed
             \/ \E k \in 1..Len(journelly_tasks) :
                   journelly_tasks[k].content = c /\ journelly_tasks[k].is_completed)
            => ~HasContent(synced_beorg, c) /\ ~HasContent(synced_journelly, c)

\* C2 amended: if the last task with content c of either list is completed,
\* neither result holds a task with content c.
C2_LastCompletedRemoves ==
    Synced =>
        \A c \in InputContents :
            (\/ HasContent(beorg_tasks, c) /\ LastWith(beorg_tasks, c).is_completed
             \/ HasContent(journelly_tasks, c) /\ LastWith(journelly_tasks, c).is_completed)
            => ~HasContent(synced_beorg, c) /\ ~HasContent(synced_journelly, c)

\* C2 witness: synchronize has returned for a content that both lists hold,
\* completed in the inbox and incomplete in the journal.
C2_Witness ==
    /\ pc = "synced"
    /\ \E c \in InputContents :
          /\ HasContent(beorg_tasks, c)
          /\ HasContent(journelly_tasks, c)
          /\ LastWith(beorg_tasks, c).is_completed
          /\ ~LastWith(journelly_tasks, c).is_completed
          /\ ~HasContent(synced_journelly, c)

\* the list that alone holds content c, if one does
OnlyIn(ts, others, c) == HasContent(ts, c) /\ ~HasContent(others, c)

\* C3: a content held by one list only: its (last) task, if incomplete, is
\* in both results once and unchanged; if completed, it is in neither.
C3_SingleSidePropagated ==
    Synced =>
        \A c \in InputContents :
            \A side \in {<<beorg_tasks, journelly_tasks>>, <<journelly_tasks, beorg_tasks>>} :
                OnlyIn(side[1], side[2], c) =>
                    LET single == LastWith(side[1], c)
                        expected == IF single.is_completed THEN <<>> ELSE <<single>>
                    IN  /\ TasksWith(synced_beorg, c) = expected
                        /\ TasksWith(synced_journelly, c) = expected

\* C3 witness: synchronize has returned for an incomplete task that only the
\* journal held and a completed one that only the inbox held.
C3_Witness ==
    /\ pc = "synced"
    /\ \E c, d \in InputContents :
          /\ OnlyIn(journelly_tasks, beorg_tasks, c)
          /\ ~LastWith(journelly_tasks, c).is_completed
          /\ HasContent(synced_beorg, c)
          /\ OnlyIn(beorg_tasks, journelly_tasks, d)
          /\ LastWith(beorg_tasks, d).is_completed

\* C4: synchronize called on the pair it returned returns the same pair,
\* list order aside.
C4_Idempotent ==
    pc = "resynced" =>
        /\ SameTasks(resynced_beorg, synced_beorg)
        /\ SameTasks(resynced_journelly, synced_journelly)

\* C4 witness: the second call has returned, the first one having dropped a
\* task, merged another and kept two contents.
C4_Witness ==
    /\ pc = "resynced"
    /\ Len(synced_beorg) = 2
    /\ Len(beorg_tasks) + Len(journelly_tasks) > 2
    /\ \E c \in InputContents : HasContent(beorg_tasks, c) /\ HasContent(journelly_tasks, c)

\* what the reconciliation rule yields for content c from the one task of
\* each list that counts (<<>> where the list has none)
Reconciled(c, b, j) ==
    IF b # <<>> /\ j # <<>>
    THEN IF b[1].is_completed \/ j[1].is_completed THEN <<>>
         ELSE <<Task(c, IF DtLess(j[1].timestamp, b[1].timestamp)
                        THEN j[1].timestamp ELSE b[1].timestamp, FALSE)>>
    ELSE IF b \o j # <<>> /\ ~(b \o j)[1].is_completed THEN b \o j
    ELSE <<>>

LastOrNone(ts, c) == IF HasContent(ts, c) THEN <<LastWith(ts, c)>> ELSE <<>>

Duplicated(ts, c) == Len(TasksWith(ts, c)) >= 2

\* C6: where a list holds a content more than once, the outcome for that
\* content is the one the last of them gives (with the other list's last),
\* and no result holds the content twice.
C6_LastDuplicateDecides ==
    Synced =>
        \A c \in InputContents :
            (Duplicated(beorg_tasks, c) \/ Duplicated(journelly_tasks, c)) =>
                LET outcome == Reconciled(c, LastOrNone(beorg_tasks, c),
                                          LastOrNone(journelly_tasks, c))
                IN  /\ TasksWith(synced_beorg, c) = outcome
                    /\ TasksWith(synced_journelly, c) = outcome

\* C6 witness: synchronize has returned for an inbox list that holds one
\* content twice, first completed and stamped early, then incomplete and
\* stamped late, and the late incomplete one is what the results hold.
C6_Witness ==
    /\ pc = "synced"
    /\ \E c \in InputContents :
          /\ Len(TasksWith(beorg_tasks, c)) = 2
          /\ TasksWith(beorg_tasks, c)[1].is_completed
          /\ ~TasksWith(beorg_tasks, c)[2].is_completed
          /\ TasksWith(beorg_tasks, c)[1].timestamp # TasksWith(beorg_tasks, c)[2].timestamp
          /\ ~HasContent(journelly_tasks, c)
          /\ TasksWith(synced_journelly, c) = <<TasksWith(beorg_tasks, c)[2]>>

(***************************************************************************)
(* Round trip.                                                             *)
(***************************************************************************)
DistinctContents(ts) ==
    \A j, k \in 1..Len(ts) : ts[j].content = ts[k].content => j = k

\* C5 as stated: for a list of tasks with pairwise distinct contents,
\* formatting, joining with line breaks and parsing with the same parser
\* gives the same tasks back and records no warning.
C5_RoundTripOfAnyTasks ==
    (pc = "parse_returned" /\ DistinctContents(source_tasks)) =>
        SameTasks(tasks, source_tasks) /\ warnings = <<>>

\* a task as a parser can return it: the content is not empty, holds no
\* line break and does not end in whitespace; the timestamp has no seconds
Writable(t) ==
    /\ t.content # <<>>
    /\ \A k \in 1..Len(t.content) : t.content[k] # NL
    /\ t.content[Len(t.content)] \notin Whitespace
    /\ t.timestamp[6] = 0

\* C5 amended: the round trip gives the same tasks back, with no warning,
\* for a list of tasks with pairwise distinct contents that are not empty,
\* hold no line break and do not end in whitespace, and whose timestamps
\* are whole minutes.
C5_RoundTripOfWritableTasks ==
    (/\ pc = "parse_returned"
     /\ DistinctContents(source_tasks)
     /\ \A k \in 1..Len(source_tasks) : Writable(source_tasks[k]))
    => SameTasks(tasks, source_tasks) /\ warnings = <<>>

\* C5 witness: the Journelly parser has read back two tasks it formatted, one
\* completed, one whose content starts with a space.
C5_Witness ==
    /\ pc = "parse_returned"
    /\ parser = Journelly
    /\ Len(source_tasks) = 2
    /\ DistinctContents(source_tasks)
    /\ \A k \in 1..2 : Writable(source_tasks[k])
    /\ \E k \in 1..2 : source_tasks[k].is_completed
    /\ \E k \in 1..2 : Head(source_tasks[k].content) = " "
    /\ tasks = source_tasks

(***************************************************************************)
(* The parsers' loop. Line(j) is the line at 0-based index j as the loop   *)
(* sees it.                                                                *)
(***************************************************************************)
Line(j) == Strip(lines[j + 1])

HeaderAt(j) == j < Len(lines) /\ is_header(parser, Line(j))

\* the timestamp text an entry starting at j carries: on the next line for
\* the inbox, in the header for the journal
StampAt(j) ==
    IF parser = BeOrg THEN SubSeq(Line(j + 1), 2, 21) ELSE SubSeq(Line(j), 4, 23)

\* a header at j with the companion line the format asks for and a
\* timestamp that is a date and a time
WellFormedAt(j) ==
    /\ HeaderAt(j)
    /\ j + 1 < Len(lines)
    /\ IF parser = BeOrg
       THEN ReMatch(BeOrgPattern, Line(j + 1))
       ELSE StartsWith(Line(j + 1), OPEN_BOX) \/ StartsWith(Line(j + 1), DONE_BOX)
    /\ ~Strptime(StampAt(j)).raised

MalformedAt(j) == HeaderAt(j) /\ ~WellFormedAt(j)

\* the task a well-formed entry at j describes
EntryTask(j) ==
    IF parser = BeOrg
    THEN Task(DropFirst(Line(j), 7), Strptime(StampAt(j)).value,
              StartsWith(Line(j), DONE_HEADER))
    ELSE Task(DropFirst(Line(j + 1), 6), Strptime(StampAt(j)).value,
              StartsWith(Line(j + 1), DONE_BOX))

\* the numbers of a set in increasing order
Ascending(S) ==
    [k \in 1..Cardinality(S) |->
        CHOOSE x \in S : Cardinality({y \in S : y < x}) = k - 1]

WellFormedIndices == Ascending({j \in 0..(Len(lines) - 1) : WellFormedAt(j)})

MalformedIndices == Ascending({j \in 0..(Len(lines) - 1) : MalformedAt(j)})

\* C7: a pass of the loop at a header whose entry is malformed (companion
\* line absent, of the wrong shape, or timestamp no date) adds no task and
\* one warning and moves on by one line; so the parser returns exactly the
\* tasks of the well-formed entries, in order, and one warning for each
\* malformed one; an inbox text that is one header line gives no task and
\* one warning.
C7_MalformedEntriesSkipped ==
    /\ [][(pc = "parse_loop" /\ MalformedAt(i)) =>
              /\ tasks' = tasks
              /\ Len(warnings') = Len(warnings) + 1
              /\ i' = i + 1
              /\ pc' = "parse_loop"]_vars
    /\ [](pc = "parse_returned" =>
              /\ tasks = [k \in 1..Len(WellFormedIndices) |->
                              EntryTask(WellFormedIndices[k])]
              /\ Len(warnings) = Len(MalformedIndices))
    /\ []((pc = "parse_returned" /\ parser = BeOrg /\ Len(lines) = 1 /\ HeaderAt(0)) =>
              tasks = <<>> /\ Len(warnings) = 1)

\* C7 witness: a parser has returned from a text where a malformed header is
\* directly followed by a well-formed entry, with that entry's task and one
\* warning.
C7_Witness ==
    /\ pc = "parse_returned"
    /\ \E j \in 0..(Len(lines) - 1) :
          /\ MalformedAt(j)
          /\ WellFormedAt(j + 1)
          /\ tasks = <<EntryTask(j + 1)>>
    /\ Len(warnings) = 1

\* the whole line is the journal header, nothing after "@ -"
ExactJournellyHeader(line) ==
    Len(line) = Len(JournellyPattern) /\ ReMatch(JournellyPattern, line)

\* C8: a pass of the Journelly parser's loop at a line that is not exactly
\* "* [YYYY-MM-DD Dow HH:MM] @ -" adds neither a task nor a warning.
C8_OnlyExactHeaderRecognized ==
    [][(pc = "parse_loop" /\ parser = Journelly /\ i < Len(lines)
           /\ ~ExactJournellyHeader(Line(i)))
       => (tasks' = tasks /\ warnings' = warnings)]_vars

(***************************************************************************)
(* A run of main. Until the first write the two files are the run's input; *)
(* their entries are read here from the raw lines, nothing stripped.       *)
(***************************************************************************)
RawEntries(file, open_marker, done_marker) ==
    LET raw == Split(file.text)
    IN  {[content |-> DropFirst(raw[k], Len(open_marker)),
          is_completed |-> StartsWith(raw[k], done_marker)] :
            k \in {n \in 1..Len(raw) :
                      StartsWith(raw[n], open_marker) \/ StartsWith(raw[n], done_marker)}}

FileEntries ==
    RawEntries(beorg_file, TODO_HEADER, DONE_HEADER)
        \cup RawEntries(journelly_file, OPEN_BOX, DONE_BOX)

NotWhitespace(ch) == ch \notin Whitespace

\* a text with letter case and all whitespace taken out of the comparison
Folded(c) == SelectSeq(LowerStr(c), NotWhitespace)

\* two different texts that differ in letter case or whitespace only
AlikeNotEqual(c, d) == c # d /\ Folded(c) = Folded(d)

EndsInWhitespace(c) == c # <<>> /\ c[Len(c)] \in Whitespace

\* c without the whitespace it ends in
WithoutTrailing(c) ==
    IF \A k \in 1..Len(c) : c[k] \in Whitespace THEN <<>>
    ELSE SubSeq(c, 1, CHOOSE k \in 1..Len(c) :
                          /\ c[k] \notin Whitespace
                          /\ \A j \in (k + 1)..Len(c) : c[j] \in Whitespace)

InBothResultsOnce(c) ==
    /\ Len(TasksWith(synced_beorg, c)) = 1
    /\ Len(TasksWith(synced_journelly, c)) = 1

C10_FatalErrorsAbort ==
    /\ [](error # <<>> => status = <<1>> /\ pc = "exit")
    /\ []((error # <<>> /\ error[1] = "reading") => attempted = {} /\ written = {})
    /\ [](error = <<"writing", BeOrg>> => attempted = {BeOrg} /\ written = {})
    /\ [](status = <<0>> => written = Parsers /\ error = <<>>)
    /\ [][/\ BeOrg \notin attempted' => beorg_file' = beorg_file
          /\ Journelly \notin attempted' => journelly_file' = journelly_file]_vars

\* C10 witness: a run has ended with status 1 on a failed write of the inbox
\* file, the journal file still as it was read although the synchronized
\* list differs from what it holds.
C10_Witness ==
    /\ pc = "exit"
    /\ status = <<1>>
    /\ error = <<"writing", BeOrg>>
    /\ journelly_file.exists
    /\ synced_journelly # journelly_tasks
    /\ Journelly_parse_tasks(journelly_file.text).tasks = journelly_tasks

(***************************************************************************)
(* write_file: order of the blocks written.                                *)
(***************************************************************************)
Written == pc \in {"write_return", "write_raised"}

\* the ways to put n list positions in a row
Arrangements(n) ==
    {p \in [1..n -> 1..n] : \A k, l \in 1..n : k # l => p[k] # p[l]}

\* p puts ts latest timestamp first
LatestFirst(ts, p) ==
    \A k, l \in 1..Len(ts) :
        k < l => ~DtLess(ts[p[k]].timestamp, ts[p[l]].timestamp)

\* p leaves tasks of one timestamp in the order they have in ts
TiesInListOrder(ts, p) ==
    \A k, l \in 1..Len(ts) :
        (k < l /\ ts[p[k]].timestamp = ts[p[l]].timestamp) => p[k] < p[l]

\* the two lines of the k-th block of ls
Block(ls, k) == SubSeq(ls, 2 * k - 1, 2 * k)

\* C11: once write_file has formatted a task list, lines holds two lines for
\* each task; the blocks follow an arrangement of the list that is latest
\* timestamp first and leaves tasks of equal timestamp in the order the list
\* had them; and when write_file returns, the file holds these lines, each
\* ended by a newline.
C11_WriteFileOrder ==
    Written =>
        /\ Len(lines) = 2 * Len(tasks)
        /\ \E p \in Arrangements(Len(tasks)) :
              /\ LatestFirst(tasks, p)
              /\ TiesInListOrder(tasks, p)
              /\ \A k \in 1..Len(tasks) :
                    Block(lines, k) = format_tasks(parser, <<tasks[p[k]]>>)
        /\ pc = "write_return" => FileOf(parser) = File(FileText(lines))

\* a list of three was written: two different tasks of one timestamp first,
\* then a later one, which the file has in front of both
C11_Witness ==
    /\ pc = "write_return"
    /\ Len(tasks) = 3
    /\ tasks[1].timestamp = tasks[2].timestamp
    /\ tasks[1].content # tasks[2].content
    /\ DtLess(tasks[2].timestamp, tasks[3].timestamp)
    /\ Block(lines, 1) = format_tasks(parser, <<tasks[3]>>)
    /\ Block(lines, 2) # Block(lines, 3)

(***************************************************************************)
(* synchronize: the two lists it returns.                                  *)
(***************************************************************************)
\* the tasks read back from the file write_file makes of a list
ReadBack(p, ts) == parse_tasks(p, write_file_text(p, ts)).tasks

\* C12: the two lists synchronize returns are the same list, task by task
\* and in the same order, on the first call and on a call with what the first
\* returned; the two files written from them read back as the same tasks.
C12_ResultsIdentical ==
    /\ Synced =>
          /\ synced_beorg = synced_journelly
          /\ ReadBack(BeOrg, synced_beorg) = ReadBack(Journelly, synced_journelly)
    /\ pc = "resynced" => resynced_beorg = resynced_journelly

\* two tasks were kept, one that only the first list had and one that only
\* the second had
C12_Witness ==
    /\ pc = "synced"
    /\ Len(synced_journelly) = 2
    /\ OnlyIn(beorg_tasks, journelly_tasks, synced_beorg[1].content)
    /\ OnlyIn(journelly_tasks, beorg_tasks, synced_beorg[2].content)
    /\ Len(ReadBack(Journelly, synced_journelly)) = 2

\* t has the timestamp of a task of A or B with t's content
TimestampFromInput(t, A, B) ==
    \E u \in Range(A) \cup Range(B) :
        u.content = t.content /\ u.timestamp = t.timestamp

\* every task of rs is incomplete, has a content and a timestamp that a
\* task of A or B has together, and no other task of rs has its content
WellFormedResult(rs, A, B) ==
    /\ \A k \in 1..Len(rs) :
          /\ ~rs[k].is_completed
          /\ rs[k].content \in {u.content : u \in Range(A) \cup Range(B)}
          /\ TimestampFromInput(rs[k], A, B)
    /\ \A k, l \in 1..Len(rs) : rs[k].content = rs[l].content => k = l

\* C13: each list synchronize returns holds incomplete tasks only, each with
\* the content of an input task and the timestamp of an input task of that
\* content, and holds no content twice; so on a second call as well.
C13_ResultsWellFormed ==
    /\ Synced =>
          /\ WellFormedResult(synced_beorg, beorg_tasks, journelly_tasks)
          /\ WellFormedResult(synced_journelly, beorg_tasks, journelly_tasks)
    /\ pc = "resynced" =>
          /\ WellFormedResult(resynced_beorg, synced_beorg, synced_journelly)
          /\ WellFormedResult(resynced_journelly, synced_beorg, synced_journelly)

\* the inputs held a content twice in one list and once more in the other,
\* at two timestamps, and a completed task of another content; the first
\* content was kept, the other was not
C13_Witness ==
    /\ pc = "synced"
    /\ \E c, d \in InputContents :
          /\ c # d
          /\ Duplicated(journelly_tasks, c)
          /\ HasContent(beorg_tasks, c)
          /\ LastWith(beorg_tasks, c).timestamp # LastWith(journelly_tasks, c).timestamp
          /\ HasContent(synced_beorg, c)
          /\ \E u \in Range(beorg_tasks) \cup Range(journelly_tasks) :
                u.content = d /\ u.is_completed
          /\ ~HasContent(synced_journelly, d)

====
